---- MODULE Spec2Model ----
(***************************************************************************)
(* A model of goss (src/main.go): the front-matter splitter, the           *)
(* whole-tree build and the serve-mode watcher.                            *)
(*                                                                         *)
(* Three specifications share the module:                                  *)
(*   SpecFM     parseFrontMatter applied to bounded texts                  *)
(*   SpecBuild  build(config) over bounded input trees                     *)
(*   SpecServe  serve(config): initial build, HTTP server, polling loop    *)
(* Texts and file names are strings; a path is a sequence of names,        *)
(* relative to the root it lives under.                                    *)
(*                                                                         *)
(* What lies outside main.go is represented, not modelled: the YAML        *)
(* decoder by the text it decodes and the template key it yields, the      *)
(* markdown converter by a wrapping of the body, a template by whether it  *)
(* loads and executes.  Reads of the input tree succeed.  The output tree  *)
(* is a map from paths to directories and files, on which os.MkdirAll,     *)
(* os.WriteFile and os.Create fail as the operating system makes them      *)
(* fail when a file stands where a directory is needed.                    *)
(*                                                                         *)
(* In SpecServe a build is the interval between its start, when it reads   *)
(* the watched trees, and its return; modification times are stamps that   *)
(* grow with every change; the author changes files once the polling       *)
(* goroutine runs.  The clock counts units of 1/UnitsPerSecond second.     *)
(***************************************************************************)
EXTENDS Integers, Sequences, FiniteSets, TLC

VARIABLES
    \* ---- parseFrontMatter ----
    content,        \* the text handed to parseFrontMatter
    fmPc,           \* "input" | "parsed"
    parsed,         \* the pair parseFrontMatter returned
    \* ---- build ----
    inputExists,    \* os.Stat(config.InputDir) succeeds
    templatesExists,\* os.Stat(config.TemplatesDir) succeeds
    tree,           \* the files of the input tree: a set of File records
    templates,      \* template file name -> "ok" | "missing" | "execfail"
    out,            \* the output tree: path -> node; the root is <<>>
    out0,           \* the output tree as it was when build was called
    pc,             \* "start" | "walk" | "done" | "aborted"
    idx,            \* position of the second filepath.Walk in its order
    count,          \* build's count of processed files
    \* ---- serve ----
    mtime,          \* watched file -> modification time, 0 when absent
    lastModified,   \* the watcher's map: file -> last seen mtime
    sinceRebuild,   \* time.Since(lastRebuild), in clock units, saturating
    sinceTick,      \* time since the ticker last fired, saturating
    mainPc,         \* position of serve()'s own flow
    pollerPc,       \* position of the polling goroutine
    serverUp,       \* the HTTP goroutine has been started
    inflight,       \* HTTP requests being served
    building,       \* the flows now inside build()
    builtAt,        \* file -> the mtime the latest build started from
    changes,        \* how many times the watched trees were changed
    last,           \* "snapshot" | "reinit" right after that step, else "-"
    scenario        \* bookkeeping for one template modification

fmVars == <<content, fmPc, parsed>>
buildVars == <<inputExists, templatesExists, tree, templates, out, out0, pc, idx, count>>
serveVars == <<mtime, lastModified, sinceRebuild, sinceTick, mainPc, pollerPc,
               serverUp, inflight, building, builtAt, changes, last, scenario>>
vars == <<fmVars, buildVars, serveVars>>

-----------------------------------------------------------------------------
(* Bounds *)

MaxTokens == 5

-----------------------------------------------------------------------------
(* package strings *)

HasPrefix(s, p) == Len(s) >= Len(p) /\ SubSeq(s, 1, Len(p)) = p

HasSuffix(s, p) == Len(s) >= Len(p) /\ SubSeq(s, Len(s) - Len(p) + 1, Len(s)) = p

TrimSuffix(s, p) == IF HasSuffix(s, p) THEN SubSeq(s, 1, Len(s) - Len(p)) ELSE s

\* strings.Index: the 0-based offset of the first occurrence of sub, or -1
Index(s, sub) ==
    LET hits == {i \in 0..(Len(s) - Len(sub)) : SubSeq(s, i + 1, i + Len(sub)) = sub}
    IN IF hits = {} THEN -1 ELSE CHOOSE i \in hits : \A j \in hits : i <= j

\* s[from:] with a 0-based offset
From(s, from) == SubSeq(s, from + 1, Len(s))

\* s[from:to] with 0-based offsets
Slice(s, from, to) == SubSeq(s, from + 1, to)

-----------------------------------------------------------------------------
(* parseFrontMatter *)

\* the zero FrontMatter value
NoFrontMatter == ""

\* yaml.Unmarshal is handed the text between the delimiters; the decoded
\* metadata is represented by the text it was decoded from.
Decoded(frontMatterContent) == frontMatterContent

\* FrontMatter.Template after decoding: the value of a leading template key
YamlTemplate(fm) ==
    IF HasPrefix(fm, "template: ")
    THEN LET rest == From(fm, 10)
             nl == Index(rest, "\n")
         IN IF nl = -1 THEN rest ELSE Slice(rest, 0, nl)
    ELSE ""

parseFrontMatter(c) ==
    IF ~HasPrefix(c, "---\n")
    THEN [fm |-> NoFrontMatter, body |-> c]
    ELSE LET endIndex == Index(From(c, 4), "---\n")
         IN IF endIndex = -1
            THEN [fm |-> NoFrontMatter, body |-> c]
            ELSE [fm |-> Decoded(Slice(c, 4, endIndex + 4)),
                  body |-> From(c, endIndex + 8)]

Tokens == {"---", "\n", "a", "-"}

RECURSIVE TextsUpTo(_)
TextsUpTo(n) ==
    IF n = 0 THEN {""}
    ELSE LET prev == TextsUpTo(n - 1)
         IN prev \cup {s \o t : s \in prev, t \in Tokens}

Texts == TextsUpTo(MaxTokens)

FMInit ==
    /\ content \in Texts
    /\ fmPc = "input"
    /\ parsed = [fm |-> NoFrontMatter, body |-> ""]

Parse ==
    /\ fmPc = "input"
    /\ parsed' = parseFrontMatter(content)
    /\ fmPc' = "parsed"
    /\ UNCHANGED content
    /\ UNCHANGED <<buildVars, serveVars>>

-----------------------------------------------------------------------------
(* file names and paths (package path/filepath) *)

\* the characters the names of the model use, in byte order
ByteOrder == ".DKMabdeghiklmnopqrstwx"

Code(c) == CHOOSE i \in 1..Len(ByteOrder) : SubSeq(ByteOrder, i, i) = c

LowerChar(c) ==
    CASE c = "D" -> "d"
      [] c = "K" -> "k"
      [] c = "M" -> "m"
      [] OTHER -> c

RECURSIVE ToLower(_)
ToLower(s) ==
    IF s = "" THEN ""
    ELSE LowerChar(SubSeq(s, 1, 1)) \o ToLower(SubSeq(s, 2, Len(s)))

\* sort.Strings order of directory entries: bytewise
RECURSIVE NameLess(_, _)
NameLess(a, b) ==
    IF a = "" THEN b # ""
    ELSE IF b = "" THEN FALSE
    ELSE LET ca == Code(SubSeq(a, 1, 1))
             cb == Code(SubSeq(b, 1, 1))
         IN IF ca = cb
            THEN NameLess(SubSeq(a, 2, Len(a)), SubSeq(b, 2, Len(b)))
            ELSE ca < cb

\* filepath.Walk: a directory, then its entries in name order, depth first
RECURSIVE PathLess(_, _)
PathLess(p, q) ==
    IF p = <<>> THEN q # <<>>
    ELSE IF q = <<>> THEN FALSE
    ELSE IF p[1] = q[1] THEN PathLess(Tail(p), Tail(q))
    ELSE NameLess(p[1], q[1])

Base(p) == p[Len(p)]

Dir(p) == SubSeq(p, 1, Len(p) - 1)

\* filepath.Ext: from the last dot of the final element, "" without one
Ext(name) ==
    LET dots == {i \in 1..Len(name) : SubSeq(name, i, i) = "."}
    IN IF dots = {} THEN ""
       ELSE SubSeq(name, CHOOSE i \in dots : \A j \in dots : j <= i, Len(name))

\* filepath.Join drops empty elements
Join(dir, elems) == dir \o SelectSeq(elems, LAMBDA e : e # "")

Prefixes(p) == {SubSeq(p, 1, k) : k \in 0..Len(p)}

isMarkdownFile(path) ==
    LET ext == ToLower(Ext(Base(path)))
    IN ext = ".md" \/ ext = ".markdown" \/ ext = ".mkd" \/ ext = ".mdown"

IsHiddenName(name) == HasPrefix(name, ".")

-----------------------------------------------------------------------------
(* the output file system (package os) *)

DirNode == [kind |-> "dir", data |-> ""]

FileNode(d) == [kind |-> "file", data |-> d]

EmptyFS == [p \in {} |-> DirNode]

IsDir(fs, p) == p \in DOMAIN fs /\ fs[p].kind = "dir"

IsFile(fs, p) == p \in DOMAIN fs /\ fs[p].kind = "file"

\* os.MkdirAll: fails, changing nothing, when a file is in the way
MkdirAll(fs, p) ==
    IF \E q \in Prefixes(p) : IsFile(fs, q)
    THEN fs
    ELSE [q \in DOMAIN fs \cup Prefixes(p) |-> IF q \in DOMAIN fs THEN fs[q] ELSE DirNode]

\* os.WriteFile and os.Create: the parent must be a directory and the
\* path must not be one
WriteFile(fs, p, d) ==
    IF IsDir(fs, Dir(p)) /\ ~IsDir(fs, p)
    THEN [q \in DOMAIN fs \cup {p} |-> IF q = p THEN FileNode(d) ELSE fs[q]]
    ELSE fs

\* copyFile: the source is a readable file of the input tree
copyFile(fs, dst, data) == WriteFile(fs, dst, data)

-----------------------------------------------------------------------------
(* the input tree *)

MaxFiles == 2

PlainText == "b"
TemplatedText == "---\ntemplate: t.html\n---\nb"
AssetText == "x"
RobotsText == "User-agent: x"

\* a file of the input tree, named dir/stem+ext
File(dir, stem, ext, text) == [dir |-> dir, stem |-> stem, ext |-> ext, text |-> text]

PathOf(f) == f.dir \o <<f.stem \o f.ext>>

Candidates ==
    { File(<<>>, "index", ".md", PlainText),
      File(<<>>, "index", ".markdown", PlainText),
      File(<<>>, "index", ".MD", PlainText),
      File(<<>>, "p", ".md", TemplatedText),
      File(<<"p">>, "index", ".md", PlainText),
      File(<<>>, "p", "", AssetText),
      File(<<>>, "q", ".MKD", TemplatedText),
      File(<<>>, "q.r", ".mdown", PlainText),
      File(<<>>, "a", ".txt", AssetText),
      File(<<>>, "robots", ".txt", RobotsText),
      File(<<>>, ".d", ".md", PlainText),
      File(<<>>, ".h", "", AssetText),
      File(<<".g">>, "a", ".txt", AssetText) }

\* no file stands where another file needs a directory
WellFormed(S) ==
    \A f \in S, g \in S : f # g => PathOf(f) \notin Prefixes(PathOf(g))

Trees == {S \in SUBSET Candidates : Cardinality(S) <= MaxFiles /\ WellFormed(S)}

TemplateNames == {"default.html", "t.html"}

TemplateStates == {"ok", "missing", "execfail"}

OldOutputs ==
    { EmptyFS,
      [p \in {<<>>, <<"old.html">>, <<".cache">>} |->
          IF p = <<"old.html">> THEN FileNode("old") ELSE DirNode] }

\* what filepath.Walk visits: the root, every directory, every file
Entry(path, isDir, text) == [path |-> path, dir |-> isDir, text |-> text]

Entries(t) ==
    {Entry(d, TRUE, "") : d \in UNION {Prefixes(Dir(PathOf(f))) : f \in t} \cup {<<>>}}
    \cup {Entry(PathOf(f), FALSE, f.text) : f \in t}

RECURSIVE Sorted(_)
Sorted(E) ==
    IF E = {} THEN <<>>
    ELSE LET first == CHOOSE e \in E : \A o \in E : o = e \/ PathLess(e.path, o.path)
         IN <<first>> \o Sorted(E \ {first})

WalkOrder(t) == Sorted(Entries(t))

-----------------------------------------------------------------------------
(* renderMarkdown, writeHTMLFile, handleRobotsTxt *)

\* goldmark's conversion of the body to an HTML fragment
Convert(body) == "<p>" \o body \o "</p>"

\* a fallback that drops the wrapper
FallbackBare(htmlContent) == htmlContent

\* the fallback page of renderMarkdown
Fallback(htmlContent) == "<html><body>" \o htmlContent \o "</body></html>"

\* what tmpl.Execute writes for a template that loads and runs
Page(templateFile, fm, htmlContent) == "{" \o templateFile \o "|" \o fm \o "}" \o htmlContent

\* a writeHTMLFile that only swaps the extension
HTMLPathFlat(outputPath, inputPath) ==
    Dir(outputPath) \o <<TrimSuffix(Base(outputPath), Ext(Base(outputPath))) \o ".html">>

\* the path writeHTMLFile writes to
HTMLPath(outputPath, inputPath) ==
    IF Base(inputPath) = "index.md"
    THEN Dir(outputPath)
         \o <<TrimSuffix(Base(outputPath), Ext(Base(outputPath))) \o ".html">>
    ELSE LET baseName == TrimSuffix(Base(inputPath), Ext(Base(inputPath)))
         IN Join(Dir(outputPath), <<baseName, "index.html">>)

writeHTMLFile(fs, outputPath, inputPath, data) ==
    LET outputHTMLPath == HTMLPath(outputPath, inputPath)
    IN WriteFile(MkdirAll(fs, Dir(outputHTMLPath)), outputHTMLPath, data)

TemplateFileOf(text) ==
    LET t == YamlTemplate(parseFrontMatter(text).fm)
    IN IF t = "" THEN "default.html" ELSE t

TemplateState(tmpls, templateFile) ==
    IF templateFile \in DOMAIN tmpls THEN tmpls[templateFile] ELSE "missing"

\* the bytes renderMarkdown hands to writeHTMLFile
Rendered(tmpls, text) ==
    LET r == parseFrontMatter(text)
        htmlContent == Convert(r.body)
        templateFile == TemplateFileOf(text)
    IN IF TemplateState(tmpls, templateFile) = "ok"
       THEN Page(templateFile, r.fm, htmlContent)
       ELSE Fallback(htmlContent)

renderMarkdown(fs, tmpls, inputPath, outputPath, text) ==
    writeHTMLFile(fs, outputPath, inputPath, Rendered(tmpls, text))

\* a callback that copies without creating the parent directory first
ProcessEntryNoMkdir(fs, tmpls, e) ==
    IF e.dir
    THEN MkdirAll(fs, e.path)
    ELSE IF isMarkdownFile(e.path)
    THEN renderMarkdown(fs, tmpls, e.path, e.path, e.text)
    ELSE IF ~HasPrefix(Base(e.path), ".")
    THEN copyFile(fs, e.path, e.text)
    ELSE fs

\* the body of the second filepath.Walk's callback
ProcessEntry(fs, tmpls, e) ==
    IF e.dir
    THEN MkdirAll(fs, e.path)
    ELSE IF isMarkdownFile(e.path)
    THEN renderMarkdown(fs, tmpls, e.path, e.path, e.text)
    ELSE IF ~HasPrefix(Base(e.path), ".")
    THEN copyFile(MkdirAll(fs, Dir(e.path)), e.path, e.text)
    ELSE fs

Counted(e) == ~e.dir /\ (isMarkdownFile(e.path) \/ ~HasPrefix(Base(e.path), "."))

DefaultRobots == "User-agent: *\nAllow: /\nSitemap: sitemap.xml"

handleRobotsTxt(fs, t) ==
    IF \E f \in t : PathOf(f) = <<"robots.txt">>
    THEN LET f == CHOOSE g \in t : PathOf(g) = <<"robots.txt">>
         IN copyFile(fs, <<"robots.txt">>, f.text)
    ELSE WriteFile(fs, <<"robots.txt">>, DefaultRobots)

-----------------------------------------------------------------------------
(* build *)

BuildInit ==
    /\ inputExists \in BOOLEAN
    /\ templatesExists \in BOOLEAN
    /\ tree \in (IF inputExists THEN Trees ELSE {{}})
    /\ templates \in (IF templatesExists
                       THEN [TemplateNames -> TemplateStates]
                       ELSE {[n \in TemplateNames |-> "missing"]})
    /\ out0 \in OldOutputs
    /\ out = out0
    /\ pc = "start"
    /\ idx = 0
    /\ count = 0

\* a build that forgets the check of the templates directory
DirsExistInputOnly == inputExists

DirsExist == inputExists /\ templatesExists

\* a missing input or template directory: log and return
BuildAbort ==
    /\ pc = "start"
    /\ ~DirsExist
    /\ pc' = "aborted"
    /\ UNCHANGED <<inputExists, templatesExists, tree, templates, out, out0, idx, count>>
    /\ UNCHANGED <<fmVars, serveVars>>

\* os.RemoveAll and os.MkdirAll of the output root
BuildReset ==
    /\ pc = "start"
    /\ DirsExist
    /\ out' = MkdirAll(EmptyFS, <<>>)
    /\ pc' = "walk"
    /\ idx' = 1
    /\ count' = 0
    /\ UNCHANGED <<inputExists, templatesExists, tree, templates, out0>>
    /\ UNCHANGED <<fmVars, serveVars>>

\* one call of the walk's callback
WalkStep ==
    /\ pc = "walk"
    /\ idx <= Len(WalkOrder(tree))
    /\ LET e == WalkOrder(tree)[idx]
       IN /\ out' = ProcessEntry(out, templates, e)
          /\ count' = IF Counted(e) THEN count + 1 ELSE count
    /\ idx' = idx + 1
    /\ UNCHANGED <<inputExists, templatesExists, tree, templates, out0, pc>>
    /\ UNCHANGED <<fmVars, serveVars>>

\* the walk is over: robots.txt, then the statistics
BuildFinish ==
    /\ pc = "walk"
    /\ idx > Len(WalkOrder(tree))
    /\ out' = handleRobotsTxt(out, tree)
    /\ pc' = "done"
    /\ UNCHANGED <<inputExists, templatesExists, tree, templates, out0, idx, count>>
    /\ UNCHANGED <<fmVars, serveVars>>

BuildNext == BuildAbort \/ BuildReset \/ WalkStep \/ BuildFinish

-----------------------------------------------------------------------------
(* serve: the watched trees, the clock *)

MaxChanges == 3
MaxRequests == 1
UnitsPerSecond == 2

\* time.NewTicker(1 * time.Second)
TickSeconds == 1
\* time.Since(lastRebuild).Seconds() >= 1
DebounceSeconds == 1

TickUnits == TickSeconds * UnitsPerSecond
DebounceUnits == DebounceSeconds * UnitsPerSecond
ClockCap == IF TickUnits > DebounceUnits THEN TickUnits ELSE DebounceUnits

InputDir == "input"
TemplatesDir == "templates"

\* the files that may exist under the two watched roots
Files ==
    { <<InputDir, "a.md">>,
      <<InputDir, ".h">>,
      <<InputDir, "n.tmp">>,
      <<TemplatesDir, "default.html">> }

Exists(m, f) == m[f] # 0

Existing(m) == {f \in Files : Exists(m, f)}

\* the files a filepath.Walk of dir passes to its callback
Walk(m, dir) == {f \in Existing(m) : f[1] = dir}

\* the watcher's test for hidden files and directories, below the root
Hidden(f) == \E i \in 2..Len(f) : HasPrefix(f[i], ".")

IsNewOrModified(lm, m, f) == f \notin DOMAIN lm \/ m[f] > lm[f]

\* the files the tick's walk of the input directory finds changed
InputChanged(lm, m) ==
    {f \in Walk(m, InputDir) :
        ~Hidden(f) /\ ~HasSuffix(Base(f), ".tmp") /\ IsNewOrModified(lm, m, f)}

\* the files the tick's walk of the templates directory finds changed
TemplatesChanged(lm, m) ==
    {f \in Walk(m, TemplatesDir) : ~Hidden(f) /\ IsNewOrModified(lm, m, f)}

\* what one tick finds: the input walk, and the templates walk only when
\* the input walk found nothing
Detected(lm, m) ==
    IF InputChanged(lm, m) # {} THEN InputChanged(lm, m) ELSE TemplatesChanged(lm, m)

Record(lm, m, S) == [f \in DOMAIN lm \cup S |-> IF f \in S THEN m[f] ELSE lm[f]]

\* an initializeFileMap that applies the tick's filter for hidden files
initializeFileMapVisible(lm, m, dir) == Record(lm, m, {f \in Walk(m, dir) : ~Hidden(f)})

\* initializeFileMap(dir): every file under dir, hidden ones included
initializeFileMap(lm, m, dir) == Record(lm, m, Walk(m, dir))

\* a debounce test that wants more than the interval
DebounceOverStrict(elapsed) == elapsed > DebounceUnits

DebounceOver(elapsed) == elapsed >= DebounceUnits

Bump(n) == IF n < ClockCap THEN n + 1 ELSE n

Sat(n) == IF n < 2 THEN n + 1 ELSE n

NoScenario == [active |-> FALSE, ticks |-> 0, rebuilds |-> 0, reinits |-> 0]

-----------------------------------------------------------------------------
(* serve: the main flow *)

ServeInit ==
    /\ mtime \in {m \in [Files -> {0, 1}] :
                     m[<<InputDir, "a.md">>] = 1 /\ m[<<TemplatesDir, "default.html">>] = 1}
    /\ lastModified = [f \in {} |-> 0]
    /\ sinceRebuild = 0
    /\ sinceTick = 0
    /\ mainPc = "build"
    /\ pollerPc = "off"
    /\ serverUp = FALSE
    /\ inflight = 0
    /\ building = {}
    /\ builtAt = [f \in Files |-> 0]
    /\ changes = 0
    /\ last = "-"
    /\ scenario = NoScenario

\* serve calls build(config): the build reads the trees as they are now
InitialBuildStart ==
    /\ mainPc = "build"
    /\ mainPc' = "building"
    /\ building' = building \cup {"main"}
    /\ builtAt' = mtime
    /\ last' = "-"
    /\ UNCHANGED <<mtime, lastModified, sinceRebuild, sinceTick, pollerPc, serverUp,
                   inflight, changes, scenario>>
    /\ UNCHANGED <<fmVars, buildVars>>

InitialBuildEnd ==
    /\ mainPc = "building"
    /\ mainPc' = "listen"
    /\ building' = building \ {"main"}
    /\ last' = "-"
    /\ UNCHANGED <<mtime, lastModified, sinceRebuild, sinceTick, pollerPc, serverUp,
                   inflight, builtAt, changes, scenario>>
    /\ UNCHANGED <<fmVars, buildVars>>

\* a serve that starts the HTTP goroutine before the initial build
StartServerFirst ==
    /\ (mainPc = "build" /\ ~serverUp) \/ mainPc = "listen"
    /\ mainPc' = IF mainPc = "listen" THEN "snapshot" ELSE mainPc
    /\ serverUp' = TRUE
    /\ last' = "-"
    /\ UNCHANGED <<mtime, lastModified, sinceRebuild, sinceTick, pollerPc, inflight,
                   building, builtAt, changes, scenario>>
    /\ UNCHANGED <<fmVars, buildVars>>

\* go func() { http.ListenAndServe(...) }()
StartServer ==
    /\ mainPc = "listen"
    /\ mainPc' = "snapshot"
    /\ serverUp' = TRUE
    /\ last' = "-"
    /\ UNCHANGED <<mtime, lastModified, sinceRebuild, sinceTick, pollerPc, inflight,
                   building, builtAt, changes, scenario>>
    /\ UNCHANGED <<fmVars, buildVars>>

\* lastRebuild := time.Now(), then initializeFileMap of both directories
Snapshot ==
    /\ mainPc = "snapshot"
    /\ mainPc' = "spawn"
    /\ sinceRebuild' = 0
    /\ lastModified' = initializeFileMap(initializeFileMap(lastModified, mtime, InputDir),
                                         mtime, TemplatesDir)
    /\ last' = "snapshot"
    /\ UNCHANGED <<mtime, sinceTick, pollerPc, serverUp, inflight, building, builtAt,
                   changes, scenario>>
    /\ UNCHANGED <<fmVars, buildVars>>

\* go func() { ticker := time.NewTicker(...); for { select ... } }()
StartPoller ==
    /\ mainPc = "spawn"
    /\ pollerPc = "off"
    /\ mainPc' = "blocked"
    /\ pollerPc' = "wait"
    /\ sinceTick' = 0
    /\ last' = "-"
    /\ UNCHANGED <<mtime, lastModified, sinceRebuild, serverUp, inflight, building,
                   builtAt, changes, scenario>>
    /\ UNCHANGED <<fmVars, buildVars>>

-----------------------------------------------------------------------------
(* serve: the polling goroutine *)

\* case <-ticker.C: both walks, and the start of a rebuild when one is due
Tick ==
    /\ pollerPc = "wait"
    /\ sinceTick >= TickUnits
    /\ LET found == Detected(lastModified, mtime)
           rebuild == found # {} /\ DebounceOver(sinceRebuild)
       IN /\ lastModified' = Record(lastModified, mtime, found)
          /\ pollerPc' = IF rebuild THEN "building" ELSE "wait"
          /\ building' = IF rebuild THEN building \cup {"poller"} ELSE building
          /\ builtAt' = IF rebuild THEN mtime ELSE builtAt
          /\ scenario' = IF scenario.active
                         THEN [scenario EXCEPT !.ticks = Sat(@),
                                               !.rebuilds = IF rebuild THEN Sat(@) ELSE @]
                         ELSE scenario
    /\ sinceTick' = 0
    /\ last' = "-"
    /\ UNCHANGED <<mtime, sinceRebuild, mainPc, serverUp, inflight, changes>>
    /\ UNCHANGED <<fmVars, buildVars>>

\* build(config) returns; lastRebuild = time.Now()
RebuildEnd ==
    /\ pollerPc = "building"
    /\ pollerPc' = "reinit"
    /\ building' = building \ {"poller"}
    /\ sinceRebuild' = 0
    /\ last' = "-"
    /\ UNCHANGED <<mtime, lastModified, sinceTick, mainPc, serverUp, inflight, builtAt,
                   changes, scenario>>
    /\ UNCHANGED <<fmVars, buildVars>>

\* initializeFileMap of both directories after the rebuild
Reinit ==
    /\ pollerPc = "reinit"
    /\ pollerPc' = "wait"
    /\ lastModified' = initializeFileMap(initializeFileMap(lastModified, mtime, InputDir),
                                         mtime, TemplatesDir)
    /\ scenario' = IF scenario.active THEN [scenario EXCEPT !.reinits = Sat(@)] ELSE scenario
    /\ last' = "reinit"
    /\ UNCHANGED <<mtime, sinceRebuild, sinceTick, mainPc, serverUp, inflight, building,
                   builtAt, changes>>
    /\ UNCHANGED <<fmVars, buildVars>>

-----------------------------------------------------------------------------
(* serve: the clock, the author of the site, HTTP clients *)

Advance ==
    /\ pollerPc # "off"
    /\ sinceRebuild < ClockCap \/ sinceTick < ClockCap
    /\ sinceRebuild' = Bump(sinceRebuild)
    /\ sinceTick' = Bump(sinceTick)
    /\ last' = "-"
    /\ UNCHANGED <<mtime, lastModified, mainPc, pollerPc, serverUp, inflight, building,
                   builtAt, changes, scenario>>
    /\ UNCHANGED <<fmVars, buildVars>>

Stamp == changes + 2

\* a single modification of a template, made while the watcher waits and
\* the debounce interval has passed, starts the bookkeeping
Arms(f) == f[1] = TemplatesDir /\ ~Hidden(f) /\ pollerPc = "wait" /\ sinceRebuild >= TickUnits

Modify(f) ==
    /\ pollerPc # "off"
    /\ changes < MaxChanges
    /\ Exists(mtime, f)
    /\ mtime' = [mtime EXCEPT ![f] = Stamp]
    /\ changes' = changes + 1
    /\ scenario' = IF Arms(f) THEN [NoScenario EXCEPT !.active = TRUE] ELSE NoScenario
    /\ last' = "-"
    /\ UNCHANGED <<lastModified, sinceRebuild, sinceTick, mainPc, pollerPc, serverUp,
                   inflight, building, builtAt>>
    /\ UNCHANGED <<fmVars, buildVars>>

Create(f) ==
    /\ pollerPc # "off"
    /\ changes < MaxChanges
    /\ ~Exists(mtime, f)
    /\ mtime' = [mtime EXCEPT ![f] = Stamp]
    /\ changes' = changes + 1
    /\ scenario' = NoScenario
    /\ last' = "-"
    /\ UNCHANGED <<lastModified, sinceRebuild, sinceTick, mainPc, pollerPc, serverUp,
                   inflight, building, builtAt>>
    /\ UNCHANGED <<fmVars, buildVars>>

Delete(f) ==
    /\ pollerPc # "off"
    /\ changes < MaxChanges
    /\ Exists(mtime, f)
    /\ mtime' = [mtime EXCEPT ![f] = 0]
    /\ changes' = changes + 1
    /\ scenario' = NoScenario
    /\ last' = "-"
    /\ UNCHANGED <<lastModified, sinceRebuild, sinceTick, mainPc, pollerPc, serverUp,
                   inflight, building, builtAt>>
    /\ UNCHANGED <<fmVars, buildVars>>

RequestStart ==
    /\ serverUp
    /\ inflight < MaxRequests
    /\ inflight' = inflight + 1
    /\ last' = "-"
    /\ UNCHANGED <<mtime, lastModified, sinceRebuild, sinceTick, mainPc, pollerPc,
                   serverUp, building, builtAt, changes, scenario>>
    /\ UNCHANGED <<fmVars, buildVars>>

RequestEnd ==
    /\ inflight > 0
    /\ inflight' = inflight - 1
    /\ last' = "-"
    /\ UNCHANGED <<mtime, lastModified, sinceRebuild, sinceTick, mainPc, pollerPc,
                   serverUp, building, builtAt, changes, scenario>>
    /\ UNCHANGED <<fmVars, buildVars>>

ServeNext ==
    \/ InitialBuildStart
    \/ InitialBuildEnd
    \/ StartServer
    \/ Snapshot
    \/ StartPoller
    \/ Tick
    \/ RebuildEnd
    \/ Reinit
    \/ Advance
    \/ \E f \in Files : Modify(f)
    \/ \E f \in Files : Create(f)
    \/ \E f \in Files : Delete(f)
    \/ RequestStart
    \/ RequestEnd

-----------------------------------------------------------------------------
(* the specifications *)

FMIdle == content = "" /\ fmPc = "off" /\ parsed = [fm |-> NoFrontMatter, body |-> ""]

BuildIdle ==
    /\ inputExists = FALSE
    /\ templatesExists = FALSE
    /\ tree = {}
    /\ templates = [n \in TemplateNames |-> "missing"]
    /\ out = EmptyFS
    /\ out0 = EmptyFS
    /\ pc = "off"
    /\ idx = 0
    /\ count = 0

ServeIdle ==
    /\ mtime = [f \in Files |-> 0]
    /\ lastModified = [f \in {} |-> 0]
    /\ sinceRebuild = 0
    /\ sinceTick = 0
    /\ mainPc = "off"
    /\ pollerPc = "off"
    /\ serverUp = FALSE
    /\ inflight = 0
    /\ building = {}
    /\ builtAt = [f \in Files |-> 0]
    /\ changes = 0
    /\ last = "-"
    /\ scenario = NoScenario

InitFM == FMInit /\ BuildIdle /\ ServeIdle

NextFM == Parse

SpecFM == InitFM /\ [][NextFM]_vars

InitBuild == FMIdle /\ BuildInit /\ ServeIdle

SpecBuild == InitBuild /\ [][BuildNext]_vars

InitServe == FMIdle /\ BuildIdle /\ ServeInit

SpecServe == InitServe /\ [][ServeNext]_vars

-----------------------------------------------------------------------------
(* Properties of parseFrontMatter *)

\* position i of t starts a line that consists solely of ---
DashLineAt(t, i) ==
    /\ i = 1 \/ SubSeq(t, i - 1, i - 1) = "\n"
    /\ i + 2 <= Len(t)
    /\ SubSeq(t, i, i + 2) = "---"
    /\ i + 3 > Len(t) \/ SubSeq(t, i + 3, i + 3) = "\n"

\* the later lines that consist solely of ---
ClosingLines(t) == {i \in 5..Len(t) : DashLineAt(t, i)}

FirstOf(S) == CHOOSE i \in S : \A j \in S : i <= j

\* C8: parseFrontMatter returns empty metadata and the whole text unless
\* the text begins with a --- line and a later --- line exists; otherwise
\* the body is exactly the text after that closing line.
C8_SplitsAtDelimiterLines ==
    fmPc = "parsed" =>
        IF ~DashLineAt(content, 1) \/ ClosingLines(content) = {}
        THEN parsed = [fm |-> NoFrontMatter, body |-> content]
        ELSE parsed.body = SubSeq(content, FirstOf(ClosingLines(content)) + 4, Len(content))

-----------------------------------------------------------------------------
(* Properties of build *)

HiddenPath(p) == \E i \in 1..Len(p) : HasPrefix(p[i], ".")

\* C1: after a build nothing whose name starts with a dot exists under
\* the output root.
C1_NoHiddenInOutput ==
    pc = "done" => \A p \in DOMAIN out : ~HiddenPath(p)

MarkdownExts == {".md", ".markdown", ".mkd", ".mdown"}

IsMarkdown(f) == ToLower(f.ext) \in MarkdownExts

\* the clean-URL rule with every index.<ext> kept in place
IndexAnyExtLocation(f) ==
    IF IsMarkdown(f)
    THEN IF f.stem = "index" THEN f.dir \o <<"index.html">>
         ELSE f.dir \o <<f.stem, "index.html">>
    ELSE f.dir \o <<f.stem \o f.ext>>

\* the clean-URL rule with only index.md kept in place
IndexMdLocation(f) ==
    IF IsMarkdown(f)
    THEN IF f.stem = "index" /\ f.ext = ".md" THEN f.dir \o <<"index.html">>
         ELSE f.dir \o <<f.stem, "index.html">>
    ELSE f.dir \o <<f.stem \o f.ext>>

\* what the file's output holds: the rendered page or the copied bytes
Product(f) == IF IsMarkdown(f) THEN Rendered(templates, f.text) ELSE f.text

\* a write to loc cannot succeed: a file stands where a directory is
\* needed, or a directory stands at loc
Blocked(fs, loc) == (\E q \in Prefixes(Dir(loc)) : IsFile(fs, q)) \/ IsDir(fs, loc)

Holds(fs, loc, data) == IsFile(fs, loc) /\ fs[loc].data = data

\* the file the walk's callback has just been called with, if any
JustProcessed ==
    IF pc = "walk" /\ idx > 1
    THEN {f \in tree : PathOf(f) = WalkOrder(tree)[idx - 1].path}
    ELSE {}

\* C2 as claimed: every non-hidden file is written to the clean-URL
\* location, index.<ext> going to index.html for every markdown extension.
C2_CleanURLAnyIndex ==
    \A f \in JustProcessed :
        ~IsHiddenName(f.stem \o f.ext) =>
            Holds(out, IndexAnyExtLocation(f), Product(f))
            \/ Blocked(out, IndexAnyExtLocation(f))

\* C2 amended: only a file named exactly index.md goes to index.html in
\* its directory; every other markdown file name.<ext>, index.markdown and
\* index.MD included, goes to name/index.html; other files keep their path.
C2_CleanURLIndexMd ==
    \A f \in JustProcessed :
        ~IsHiddenName(f.stem \o f.ext) =>
            Holds(out, IndexMdLocation(f), Product(f))
            \/ Blocked(out, IndexMdLocation(f))

C2_Witness ==
    /\ \E f \in JustProcessed : f.stem = "index" /\ f.ext = ".markdown"
    /\ IsFile(out, <<"index", "index.html">>)

TemplateFails(f) == TemplateState(templates, TemplateFileOf(f.text)) # "ok"

FallbackOf(f) ==
    "<html><body>" \o Convert(parseFrontMatter(f.text).body) \o "</body></html>"

\* C6: a page whose template cannot be loaded or fails is written as the
\* fallback wrapper at its usual location, and the build goes on: it ends
\* having counted every file it had to process.
C6_FallbackPage ==
    /\ \A f \in JustProcessed :
          IsMarkdown(f) /\ TemplateFails(f) =>
              Holds(out, IndexMdLocation(f), FallbackOf(f))
              \/ Blocked(out, IndexMdLocation(f))
    /\ pc = "done" =>
          count = Cardinality({f \in tree : IsMarkdown(f) \/ ~IsHiddenName(f.stem \o f.ext)})
    /\ DirsExist => pc # "aborted"

C6_Witness ==
    /\ pc = "done"
    /\ \E f \in tree, g \in tree :
          /\ PathLess(PathOf(f), PathOf(g))
          /\ IsMarkdown(f) /\ TemplateFails(f)
          /\ Holds(out, IndexMdLocation(f), FallbackOf(f))
          /\ ~IsMarkdown(g) /\ Holds(out, PathOf(g), g.text)

\* C7: with the input or the template directory missing the build aborts
\* and the output root stays exactly as it was.
C7_AbortLeavesOutput ==
    (~inputExists \/ ~templatesExists) =>
        /\ pc \in {"off", "start", "aborted"}
        /\ out = out0

C7_Witness ==
    /\ pc = "aborted"
    /\ inputExists /\ ~templatesExists
    /\ tree # {}
    /\ out0 # EmptyFS
    /\ out = out0

-----------------------------------------------------------------------------
(* Order of processing *)

\* the entries below the root, which the walk always visits first
Below(t) == {e \in Entries(t) : e.path # <<>>}

\* the output trees a build can end with when the callback is called on
\* the entries E in any order, starting from fs
RECURSIVE Outcomes(_, _)
Outcomes(fs, E) ==
    IF E = {} THEN {handleRobotsTxt(fs, tree)}
    ELSE UNION {Outcomes(ProcessEntry(fs, templates, e), E \ {e}) : e \in E}

AnyOrderOutcomes == Outcomes(MkdirAll(EmptyFS, <<>>), Below(tree))

\* the file an entry makes the build write, as a set: empty for a
\* directory and for a skipped file
Target(e) ==
    IF e.dir THEN {}
    ELSE IF isMarkdownFile(e.path) THEN {HTMLPath(e.path, e.path)}
    ELSE IF ~HasPrefix(Base(e.path), ".") THEN {e.path}
    ELSE {}

\* the directories an entry needs in the output
Needs(e) ==
    IF e.dir THEN Prefixes(e.path)
    ELSE UNION {Prefixes(Dir(loc)) : loc \in Target(e)}

\* no two entries write the same file, and no entry writes a file where
\* another entry needs a directory
CollisionFree(t) ==
    \A e1 \in Entries(t), e2 \in Entries(t) :
        e1 # e2 => /\ Target(e1) \cap Target(e2) = {}
                   /\ Target(e1) \cap Needs(e2) = {}

\* C5 as claimed: for every input tree every processing order of its
\* entries ends with the output tree the build produced.
C5_OrderIndependent ==
    pc = "done" => AnyOrderOutcomes = {out}

\* C5 amended: every processing order ends with the same output tree
\* provided no two entries collide in the output; entries that share an
\* output location, or a file that stands where another entry needs a
\* directory, make the result depend on the order.
C5_OrderIndependentWithoutCollisions ==
    pc = "done" /\ CollisionFree(tree) => AnyOrderOutcomes = {out}

C5_Witness ==
    /\ pc = "done"
    /\ CollisionFree(tree)
    /\ Cardinality(tree) >= 2
    /\ \E e \in Below(tree) : e.dir
    /\ \E f \in tree : IsFile(out, f.dir \o <<f.stem, "index.html">>)
    /\ AnyOrderOutcomes = {out}

-----------------------------------------------------------------------------
(* Properties of serve *)

\* the file was changed after the latest build read the trees
Stale(f) == Exists(mtime, f) /\ mtime[f] > builtAt[f]

\* a tick that finds changes and starts no rebuild: the debounce
\* postpones it
PostponingTick ==
    /\ pollerPc = "wait" /\ pollerPc' = "wait"
    /\ sinceTick >= TickUnits /\ sinceTick' = 0
    /\ Detected(lastModified, mtime) # {}

\* C3: the debounce only postpones: after a tick that found a changed
\* file and started no rebuild, that change of a non-hidden file is still
\* there to be found, so that a later tick rebuilds.
C3_DebounceKeepsChange ==
    [][PostponingTick =>
          \A f \in Detected(lastModified, mtime) :
              Stale(f)' => IsNewOrModified(lastModified', mtime', f)]_vars

\* C4: a single modification of a non-hidden template, made while the
\* watcher waits and a tick interval has passed since the last rebuild,
\* is followed by exactly one rebuild and one reinitialization: the first
\* tick after it rebuilds, and no later tick does while nothing changes.
C4_ExactlyOneRebuild ==
    scenario.active =>
        /\ scenario.rebuilds <= 1
        /\ scenario.reinits <= 1
        /\ scenario.reinits <= scenario.rebuilds
        /\ scenario.ticks >= 1 => scenario.rebuilds = 1
        /\ scenario.ticks >= 1 /\ pollerPc = "wait" => scenario.reinits = 1

C4_Witness ==
    /\ scenario.active
    /\ scenario.ticks = 2
    /\ scenario.rebuilds = 1
    /\ scenario.reinits = 1
    /\ pollerPc = "wait"

\* C9 as claimed: right after the reinitialization that follows a rebuild
\* the watch state holds exactly the files that exist, each with its
\* current modification time.
C9_WatchStateIsFreshScan ==
    last = "reinit" =>
        /\ DOMAIN lastModified = Existing(mtime)
        /\ \A f \in Existing(mtime) : lastModified[f] = mtime[f]

\* C9 amended: right after the reinitialization every file that exists
\* is in the watch state with its current modification time; the map is
\* not discarded, so entries of deleted files stay in it.
C9_WatchStateCoversExisting ==
    last = "reinit" =>
        /\ Existing(mtime) \subseteq DOMAIN lastModified
        /\ \A f \in Existing(mtime) : lastModified[f] = mtime[f]

C9_Witness ==
    /\ last = "reinit"
    /\ \E f \in DOMAIN lastModified : ~Exists(mtime, f)
    /\ \E f \in Existing(mtime) : lastModified[f] = mtime[f] /\ mtime[f] > 1

\* C10: at most one build runs at any time; the initial build is over
\* before the HTTP server and the watcher start, so that only the polling
\* loop builds while requests are served.
C10_OneBuildAtATime ==
    /\ Cardinality(building) <= 1
    /\ serverUp => "main" \notin building /\ mainPc \notin {"build", "building"}
    /\ pollerPc # "off" => "main" \notin building /\ mainPc = "blocked"
    /\ pollerPc = "building" <=> "poller" \in building

C10_Witness ==
    /\ serverUp
    /\ inflight > 0
    /\ building = {"poller"}

====
